---- MODULE Spec2Model ----
(***************************************************************************)
(* Model of selfdrive/car/car_specific.py: the CarSpecificEvents object    *)
(* (its configuration CP and its four hysteresis fields) and its update    *)
(* method, which dispatches on CP.carName, runs create_common_events and   *)
(* the family's extra rules, and returns an ordered list of event names.   *)
(*                                                                         *)
(* Speeds and accelerations are fixed-point integers in units of 0.001     *)
(* (mm/s, mm/s^2): 0.5 m/s is 500, 1e-3 is 1.  Event sets are sequences of *)
(* event names in insertion order (Events.add appends, no deduplication).  *)
(***************************************************************************)
EXTENDS Integers, Sequences, FiniteSets

VARIABLES
  CP,                    \* self.CP, fixed at construction
  steering_unpressed,    \* self.steering_unpressed
  low_speed_alert,       \* self.low_speed_alert
  no_steer_warning,      \* self.no_steer_warning
  silent_steer_warning,  \* self.silent_steer_warning
  CS, CS_prev, CC_prev,  \* arguments of the last update call
  events,                \* event list returned by the last update call
  outcome,               \* "none" before the first call, then "returned" or "ValueError"
  unpressed_run,         \* history: consecutive most recent update calls with steeringPressed false
  fault_cleared,         \* history: some update call so far had steerFaultTemporary false
  silent_raised,         \* history: steerTempUnavailableSilent was returned since the last call
                         \* with steerFaultTemporary false
  first_alert            \* history: what the first call since then that returned one of the two
                         \* steering alerts returned: "none" so far, "silent" or "loud"

vars == <<CP, steering_unpressed, low_speed_alert, no_steer_warning, silent_steer_warning,
          CS, CS_prev, CC_prev, events, outcome, unpressed_run,
          fault_cleared, silent_raised, first_alert>>

-----------------------------------------------------------------------------
(* Bounds of the model *)

\* control-loop rate in ticks per second; DT_CTRL = 1 / TicksPerSecond
TicksPerSecond == 2

\* update is not called with the wheel unpressed once the counter is this large
MaxUnpressed == 5

\* the longest CS.out.buttonEvents list of one snapshot
MaxButtons == 2

-----------------------------------------------------------------------------
(* Imported names (defined outside car_specific.py) *)

\* MAX_CTRL_SPEED, mm/s (the comparison is vEgo > MAX_CTRL_SPEED)
MAX_CTRL_SPEED == 41388

\* VWCarControllerParams.DEFAULT_MIN_STEER_SPEED, mm/s
DEFAULT_MIN_STEER_SPEED == 0

\* hyundai ENABLE_BUTTONS
HYUNDAI_ENABLE_BUTTONS == {"RES_ACCEL", "SET_DECEL"}

\* car.CarState.GearShifter
GearShifter ==
  {"unknown", "park", "drive", "neutral", "reverse", "sport", "low", "brake", "eco", "manumatic"}

\* the carName values update dispatches on
SupportedCars ==
  {"tesla", "subaru", "ford", "nissan", "mazda", "chrysler", "honda", "toyota", "gm",
   "volkswagen", "hyundai", "body"}

\* int(1.5 / DT_CTRL): int truncates toward zero
SilentTicks == (15 * TicksPerSecond) \div 10

-----------------------------------------------------------------------------
(* Events *)

\* Events(): the empty collector
Events == << >>

\* events.add(name) under a condition
AddIf(ev, cond, name) == IF cond THEN Append(ev, name) ELSE ev

Count(ev, name) == Cardinality({i \in DOMAIN ev : ev[i] = name})

Has(ev, name) == \E i \in DOMAIN ev : ev[i] = name

\* the hysteresis fields and configuration of one CarSpecificEvents object
Self ==
  [CP |-> CP, steering_unpressed |-> steering_unpressed, low_speed_alert |-> low_speed_alert,
   no_steer_warning |-> no_steer_warning, silent_steer_warning |-> silent_steer_warning]

-----------------------------------------------------------------------------
(* create_common_events *)

\* the gear check: not drive and (extra_gears is None or gear not in extra_gears);
\* extra_gears = None is passed as the empty set, which makes the same test true
WrongGear(out, extra_gears) ==
  out.gearShifter # "drive" /\ out.gearShifter \notin extra_gears

\* faulty variant: the seatbelt check runs before the door check
CabinEventsSwapped(out) ==
  AddIf(AddIf(Events, out.seatbeltUnlatched, "seatbeltNotLatched"), out.doorOpen, "doorOpen")

\* the first two checks: door, then seatbelt
CabinEvents(out) ==
  AddIf(AddIf(Events, out.doorOpen, "doorOpen"), out.seatbeltUnlatched, "seatbeltNotLatched")

\* the independent flag checks, in source order
FlagEvents(cp, out, extra_gears) ==
  LET e2  == CabinEvents(out)
      e3  == AddIf(e2, WrongGear(out, extra_gears), "wrongGear")
      e4  == AddIf(e3, out.gearShifter = "reverse", "reverseGear")
      e5  == AddIf(e4, ~out.cruiseState.available, "wrongCarMode")
      e6  == AddIf(e5, out.espDisabled, "espDisabled")
      e7  == AddIf(e6, out.espActive, "espActive")
      e8  == AddIf(e7, out.stockFcw, "stockFcw")
      e9  == AddIf(e8, out.stockAeb, "stockAeb")
      e10 == AddIf(e9, out.vEgo > MAX_CTRL_SPEED, "speedTooHigh")
      e11 == AddIf(e10, out.cruiseState.nonAdaptive, "wrongCruiseMode")
      e12 == AddIf(e11, out.brakeHoldActive /\ cp.openpilotLongitudinalControl, "brakeHold")
      e13 == AddIf(e12, out.parkingBrake, "parkBrake")
      e14 == AddIf(e13, out.accFaulted, "accFaulted")
      e15 == AddIf(e14, out.steeringPressed, "steerOverride")
      e16 == AddIf(e15, out.brakePressed /\ out.standstill, "preEnableStandstill")
      e17 == AddIf(e16, out.gasPressed, "gasPressedOverride")
  IN  AddIf(e17, out.vehicleSensorsInvalid, "vehicleSensorsInvalid")

\* faulty variant: an event already in the collector is not added again
ButtonStepDedup(cp, ev, b, enable_buttons) ==
  LET e1 == AddIf(ev, ~cp.pcmCruise /\ (b.type \in enable_buttons /\ ~b.pressed)
                        /\ ~Has(ev, "buttonEnable"), "buttonEnable")
  IN  AddIf(e1, b.type = "cancel" /\ ~Has(e1, "buttonCancel"), "buttonCancel")

\* one iteration of the button loop
ButtonStep(cp, ev, b, enable_buttons) ==
  LET e1 == AddIf(ev, ~cp.pcmCruise /\ (b.type \in enable_buttons /\ ~b.pressed), "buttonEnable")
  IN  AddIf(e1, b.type = "cancel", "buttonCancel")

\* for b in CS.out.buttonEvents
RECURSIVE ButtonEvents(_, _, _, _)
ButtonEvents(cp, ev, bs, enable_buttons) ==
  IF bs = << >> THEN ev
  ELSE ButtonEvents(cp, ButtonStep(cp, ev, Head(bs), enable_buttons), Tail(bs), enable_buttons)

\* faulty variant: the counter advances two steps on an unpressed cycle
NextUnpressedTwice(self, out) ==
  IF out.steeringPressed THEN 0 ELSE self.steering_unpressed + 2

\* the unpressed-duration counter
NextUnpressed(self, out) ==
  IF out.steeringPressed THEN 0 ELSE self.steering_unpressed + 1

\* faulty variant: the override is honoured on the cycle the fault starts only
SuppressWarningStartOnly(self, out, prev) ==
  out.steeringPressed /\ ~prev.steerFaultTemporary

\* the driver overrides while the fault starts, or has been overriding since
SuppressWarning(self, out, prev) ==
  out.steeringPressed /\ (~prev.steerFaultTemporary \/ self.no_steer_warning)

\* faulty variant: the choice ignores the silent latch
SilentAlertNoLatch(self, out, su) ==
  out.standstill \/ su < SilentTicks

\* faulty variant: the silent window is one tick longer
SilentAlertOffByOne(self, out, su) ==
  self.silent_steer_warning \/ out.standstill \/ su <= SilentTicks

\* the less harsh alert is chosen; su is the counter after this cycle's update
SilentAlert(self, out, su) ==
  self.silent_steer_warning \/ out.standstill \/ su < SilentTicks

\* faulty variant: the silent latch survives a cycle without the fault
ClearLatchesKeepSilent(s) ==
  [s EXCEPT !.no_steer_warning = FALSE]

\* no temporary fault: both latches are cleared
ClearLatches(s) ==
  [s EXCEPT !.no_steer_warning = FALSE, !.silent_steer_warning = FALSE]

\* faulty variant: the permanent fault is reported only when no temporary one is active
PermanentFaultElse(out) ==
  out.steerFaultPermanent /\ ~out.steerFaultTemporary

\* the permanent fault check, after and apart from the temporary one
PermanentFault(out) ==
  out.steerFaultPermanent

\* permanent and temporary steering faults: the new hysteresis fields and the events
SteerFault(self, out, prev, ev) ==
  LET su == NextUnpressed(self, out)
      s1 == [self EXCEPT !.steering_unpressed = su]
      r  == IF out.steerFaultTemporary
            THEN IF SuppressWarning(self, out, prev)
                 THEN [self |-> [s1 EXCEPT !.no_steer_warning = TRUE], events |-> ev]
                 ELSE IF SilentAlert(self, out, su)
                      THEN [self |-> [s1 EXCEPT !.no_steer_warning = FALSE,
                                                !.silent_steer_warning = TRUE],
                            events |-> Append(ev, "steerTempUnavailableSilent")]
                      ELSE [self |-> [s1 EXCEPT !.no_steer_warning = FALSE],
                            events |-> Append(ev, "steerTempUnavailable")]
            ELSE [self |-> ClearLatches(s1), events |-> ev]
  IN  [self |-> r.self, events |-> AddIf(r.events, PermanentFault(out), "steerUnavailable")]

\* faulty variant: engages on the level of the cruise state, not on its rising edge
PcmEnableLevel(out, prev, allow_enable) ==
  out.cruiseState.enabled /\ allow_enable

\* faulty variant: the rising edge is gated by the negation of allow_enable
PcmEnableVetoInverted(out, prev, allow_enable) ==
  out.cruiseState.enabled /\ ~prev.cruiseState.enabled /\ ~allow_enable

\* rising edge of the PCM's cruise state, unless the interface blocks enabling
PcmEnableEdge(out, prev, allow_enable) ==
  out.cruiseState.enabled /\ ~prev.cruiseState.enabled /\ allow_enable

\* faulty variant: disengages on the falling edge only
PcmDisableFallingEdge(out, prev) ==
  prev.cruiseState.enabled /\ ~out.cruiseState.enabled

\* the elif condition: the PCM's cruise state is off (prev is not read)
PcmDisable(out, prev) ==
  ~out.cruiseState.enabled

PcmEvents(out, prev, pcm_enable, allow_enable, ev) ==
  IF pcm_enable
  THEN IF PcmEnableEdge(out, prev, allow_enable) THEN Append(ev, "pcmEnable")
       ELSE IF PcmDisable(out, prev) THEN Append(ev, "pcmDisable")
       ELSE ev
  ELSE ev

\* returns the events and the object's fields after the call
create_common_events(self, cs, prev, extra_gears, pcm_enable, allow_enable, enable_buttons) ==
  LET e1 == FlagEvents(self.CP, cs.out, extra_gears)
      e2 == ButtonEvents(self.CP, e1, cs.out.buttonEvents, enable_buttons)
      sf == SteerFault(self, cs.out, prev, e2)
  IN  [self |-> sf.self,
       events |-> PcmEvents(cs.out, prev, pcm_enable, allow_enable, sf.events),
       raised |-> FALSE]

\* the default enable_buttons
DefaultEnableButtons == {"accelCruise", "decelCruise"}

-----------------------------------------------------------------------------
(* update: the per-family rules *)

\* chrysler: low speed steer alert hysteresis
ChryslerLowSpeedAlert(self, out) ==
  IF self.CP.minSteerSpeed > 0 /\ out.vEgo < self.CP.minSteerSpeed + 500 THEN TRUE
  ELSE IF out.vEgo > self.CP.minSteerSpeed + 1000 THEN FALSE
  ELSE self.low_speed_alert

\* faulty variant: the 0.001 margin on minSteerSpeed is dropped
VolkswagenLowSpeedAlertNoMargin(self, out) ==
  IF self.CP.minSteerSpeed > DEFAULT_MIN_STEER_SPEED /\ out.vEgo < self.CP.minSteerSpeed + 1000
  THEN TRUE
  ELSE IF out.vEgo > self.CP.minSteerSpeed + 2000 THEN FALSE
  ELSE self.low_speed_alert

\* volkswagen: low speed steer alert hysteresis
VolkswagenLowSpeedAlert(self, out) ==
  IF self.CP.minSteerSpeed - 1 > DEFAULT_MIN_STEER_SPEED /\ out.vEgo < self.CP.minSteerSpeed + 1000
  THEN TRUE
  ELSE IF out.vEgo > self.CP.minSteerSpeed + 2000 THEN FALSE
  ELSE self.low_speed_alert

\* faulty variant: the latch clears at the set threshold, without a hysteresis band
HyundaiLowSpeedAlertNoBand(self, out) ==
  LET a == IF out.vEgo < self.CP.minSteerSpeed + 2000 /\ self.CP.minSteerSpeed > 10000
           THEN TRUE ELSE self.low_speed_alert
  IN  IF out.vEgo > self.CP.minSteerSpeed + 2000 THEN FALSE ELSE a

\* hyundai: two independent ifs, the set first and the clear second
HyundaiLowSpeedAlert(self, out) ==
  LET a == IF out.vEgo < self.CP.minSteerSpeed + 2000 /\ self.CP.minSteerSpeed > 10000
           THEN TRUE ELSE self.low_speed_alert
  IN  IF out.vEgo > self.CP.minSteerSpeed + 4000 THEN FALSE ELSE a

\* store the latch and raise belowSteerSpeed while it is set
WithLowSpeedAlert(r, latch) ==
  [r EXCEPT !.self.low_speed_alert = latch,
            !.events = AddIf(r.events, latch, "belowSteerSpeed")]

\* honda with pcmCruise: engage on the rising edge
HondaEnableEdge(out, prev) ==
  out.cruiseState.enabled /\ ~prev.cruiseState.enabled

\* faulty variant: a previous commanded accel of exactly 0 counts as braking
HondaCruiseOffStrict(cp, out, cc) ==
  ~out.cruiseState.enabled /\ (cc.actuators.accel > 0 \/ ~cp.openpilotLongitudinalControl)

\* honda with pcmCruise: the car's cruise is off and the stack is not braking
HondaCruiseOff(cp, out, cc) ==
  ~out.cruiseState.enabled /\ (cc.actuators.accel >= 0 \/ ~cp.openpilotLongitudinalControl)

HondaEvents(cp, out, prev, cc, ev) ==
  LET e1 == AddIf(ev, cp.pcmCruise /\ out.vEgo < cp.minEnableSpeed, "belowEngageSpeed")
      e2 == IF cp.pcmCruise
            THEN IF HondaEnableEdge(out, prev) THEN Append(e1, "pcmEnable")
                 ELSE IF HondaCruiseOff(cp, out, cc)
                      THEN IF out.vEgo < cp.minEnableSpeed + 2000 THEN Append(e1, "speedTooLow")
                           ELSE Append(e1, "cruiseDisabled")
                      ELSE e1
            ELSE e1
  IN  AddIf(e2, cp.minEnableSpeed > 0 /\ out.vEgo < 1, "manualRestart")

ToyotaEvents(cp, cs, cc, ev) ==
  IF cp.openpilotLongitudinalControl
  THEN LET e1 == AddIf(ev, cs.out.cruiseState.standstill /\ ~cs.out.brakePressed, "resumeRequired")
           e2 == AddIf(e1, cs.low_speed_lockout, "lowSpeedLockout")
       IN  IF cs.out.vEgo < cp.minEnableSpeed
           THEN LET e3 == Append(e2, "belowEngageSpeed")
                    e4 == AddIf(e3, cc.actuators.accel > 300, "speedTooLow")
                IN  AddIf(e4, cs.out.vEgo < 1, "manualRestart")
           ELSE e2
  ELSE ev

GmEvents(cp, cs, ev) ==
  LET e1 == AddIf(ev, ~cp.pcmCruise /\ (\E i \in DOMAIN cs.out.buttonEvents :
                        cs.out.buttonEvents[i].type = "accelCruise" /\ cs.out.buttonEvents[i].pressed),
                  "buttonEnable")
      below_min_enable_speed == cs.out.vEgo < cp.minEnableSpeed \/ cs.moving_backward
      e2 == AddIf(e1, below_min_enable_speed /\ ~(cs.out.standstill /\ cs.out.brake >= 20 /\
                                                  cp.networkLocation = "fwdCamera"),
                  "belowEngageSpeed")
      e3 == AddIf(e2, cs.out.cruiseState.standstill, "resumeRequired")
  IN  AddIf(e3, cs.out.vEgo < cp.minSteerSpeed, "belowSteerSpeed")

VolkswagenEvents(cp, out, cc, ev) ==
  IF cp.openpilotLongitudinalControl
  THEN LET e1 == AddIf(ev, out.vEgo < cp.minEnableSpeed + 500, "belowEngageSpeed")
       IN  AddIf(e1, cc.enabled /\ out.vEgo < cp.minEnableSpeed, "speedTooLow")
  ELSE ev

\* faulty variant: a main button alone does not allow engagement
HyundaiAllowEnableNoMain(cs) ==
  \E i \in DOMAIN cs.cruise_buttons : cs.cruise_buttons[i] \in HYUNDAI_ENABLE_BUTTONS

\* hyundai: engagement needs an enable button in cruise_buttons or a main button
HyundaiAllowEnable(cs) ==
  \/ \E i \in DOMAIN cs.cruise_buttons : cs.cruise_buttons[i] \in HYUNDAI_ENABLE_BUTTONS
  \/ \E i \in DOMAIN cs.main_buttons : cs.main_buttons[i] # 0

\* faulty variant: every family is passed gm's list
ExtraGearsShared(carName) ==
  {"sport", "low", "eco", "manumatic"}

\* the gears each family tolerates besides drive
ExtraGears(carName) ==
  CASE carName = "ford" -> {"manumatic"}
    [] carName = "nissan" -> {"brake"}
    [] carName = "chrysler" -> {"low"}
    [] carName = "gm" -> {"sport", "low", "eco", "manumatic"}
    [] carName = "volkswagen" -> {"eco", "sport", "manumatic"}
    [] OTHER -> {}

\* faulty variant: body is dispatched to the common evaluator like tesla and subaru
CommonCarsWithBody == SupportedCars

\* the families whose branch calls create_common_events
CommonCars == SupportedCars \ {"body"}

\* the pcm_enable argument each family passes (default True)
PcmEnableArg(cp) ==
  CASE cp.carName = "honda" -> FALSE
    [] cp.carName = "gm" -> cp.pcmCruise
    [] cp.carName = "volkswagen" -> ~cp.openpilotLongitudinalControl
    [] cp.carName = "hyundai" -> cp.pcmCruise
    [] OTHER -> TRUE

\* the allow_enable argument each family passes (default True)
AllowEnableArg(cp, cs) ==
  IF cp.carName = "hyundai" THEN HyundaiAllowEnable(cs) ELSE TRUE

\* the enable_buttons argument each family passes
EnableButtonsArg(cp) ==
  CASE cp.carName = "gm" -> {"decelCruise"}
    [] cp.carName = "volkswagen" -> {"setCruise", "resumeCruise"}
    [] OTHER -> DefaultEnableButtons

\* the family's call of create_common_events
Common(self, cs, prev) ==
  create_common_events(self, cs, prev, ExtraGears(self.CP.carName), PcmEnableArg(self.CP),
                       AllowEnableArg(self.CP, cs), EnableButtonsArg(self.CP))

\* the events each family adds after the common ones; r is the result so far
FamilyEvents(name, r, cs, prev, cc) ==
  LET cp == r.self.CP
  IN  CASE name = "nissan" -> AddIf(r.events, cs.lkas_enabled, "invalidLkasSetting")
        [] name = "mazda" ->
             IF cs.lkas_disabled THEN Append(r.events, "lkasDisabled")
             ELSE AddIf(r.events, cs.low_speed_alert, "belowSteerSpeed")
        [] name = "honda" -> HondaEvents(cp, cs.out, prev, cc, r.events)
        [] name = "toyota" -> ToyotaEvents(cp, cs, cc, r.events)
        [] name = "gm" -> GmEvents(cp, cs, r.events)
        [] name = "volkswagen" -> VolkswagenEvents(cp, cs.out, cc, r.events)
        [] OTHER -> r.events

\* the low speed steer alert latch after the call
LowSpeedAlert(self, out) ==
  CASE self.CP.carName = "chrysler" -> ChryslerLowSpeedAlert(self, out)
    [] self.CP.carName = "volkswagen" -> VolkswagenLowSpeedAlert(self, out)
    [] self.CP.carName = "hyundai" -> HyundaiLowSpeedAlert(self, out)
    [] OTHER -> self.low_speed_alert

\* the families with the low speed steer alert latch
LatchCars == {"chrysler", "volkswagen", "hyundai"}

\* faulty variant: the body branch clears the two debounce latches
BodyResultClearing(self) ==
  [self |-> ClearLatches(self), events |-> Events, raised |-> FALSE]

\* the body branch: an empty Events(), the object untouched
BodyResult(self) ==
  [self |-> self, events |-> Events, raised |-> FALSE]

\* faulty variant: an unknown carName falls through to an empty result
UnsupportedSilent(self) ==
  [self |-> self, events |-> Events, raised |-> FALSE]

\* the else branch: raise ValueError, nothing is returned
UnsupportedResult(self) ==
  [self |-> self, events |-> Events, raised |-> TRUE]

\* a branch that calls create_common_events: the common events, then the latch
\* (chrysler, volkswagen, hyundai), then the family's own events
CommonResult(self, cs, prev, cc) ==
  LET name == self.CP.carName
      r == Common(self, cs, prev)
      l == IF name \in LatchCars THEN WithLowSpeedAlert(r, LowSpeedAlert(r.self, cs.out)) ELSE r
  IN  [l EXCEPT !.events = FamilyEvents(name, l, cs, prev, cc)]

\* update(CS, CS_prev, CC_prev): the object's fields after the call, the returned
\* events, and whether the call raised instead of returning
update(self, cs, prev, cc) ==
  CASE self.CP.carName \in CommonCars -> CommonResult(self, cs, prev, cc)
    [] self.CP.carName = "body" -> BodyResult(self)
    [] OTHER -> UnsupportedResult(self)

-----------------------------------------------------------------------------
(* The object and its one operation *)

\* faulty variant: the silent latch starts clear
ConstructLatchClear(cp) ==
  /\ CP = cp
  /\ steering_unpressed = 0
  /\ low_speed_alert = FALSE
  /\ no_steer_warning = FALSE
  /\ silent_steer_warning = FALSE

\* CarSpecificEvents.__init__(CP)
Construct(cp) ==
  /\ CP = cp
  /\ steering_unpressed = 0
  /\ low_speed_alert = FALSE
  /\ no_steer_warning = FALSE
  /\ silent_steer_warning = TRUE

\* one call update(cs, prev, cc) on the object; a raised call returns nothing and
\* leaves the last returned list in place
Update(cs, prev, cc) ==
  /\ IF cs.out.steeringPressed THEN TRUE
     ELSE steering_unpressed < MaxUnpressed /\ unpressed_run < MaxUnpressed
  /\ \E r \in {update(Self, cs, prev, cc)} :
         /\ steering_unpressed' = r.self.steering_unpressed
         /\ low_speed_alert' = r.self.low_speed_alert
         /\ no_steer_warning' = r.self.no_steer_warning
         /\ silent_steer_warning' = r.self.silent_steer_warning
         /\ CP' = r.self.CP
         /\ events' = IF r.raised THEN events ELSE r.events
         /\ outcome' = IF r.raised THEN "ValueError" ELSE "returned"
  /\ CS' = cs
  /\ CS_prev' = prev
  /\ CC_prev' = cc
  /\ unpressed_run' = IF cs.out.steeringPressed THEN 0 ELSE unpressed_run + 1
  /\ fault_cleared' = (fault_cleared \/ ~cs.out.steerFaultTemporary)
  /\ silent_raised' = IF ~cs.out.steerFaultTemporary THEN FALSE
                      ELSE silent_raised \/ Has(events', "steerTempUnavailableSilent")
  /\ first_alert' = IF ~cs.out.steerFaultTemporary THEN "none"
                    ELSE IF first_alert # "none" THEN first_alert
                    ELSE IF Has(events', "steerTempUnavailableSilent") THEN "silent"
                    ELSE IF Has(events', "steerTempUnavailable") THEN "loud"
                    ELSE "none"

-----------------------------------------------------------------------------
(* Inputs: snapshots, previous snapshots, previous actuator outputs *)

\* a CarState with nothing raised: in drive, cruise available, cruising at 20 m/s
Out0 ==
  [doorOpen |-> FALSE, seatbeltUnlatched |-> FALSE, gearShifter |-> "drive",
   cruiseState |-> [enabled |-> FALSE, available |-> TRUE, standstill |-> FALSE,
                    nonAdaptive |-> FALSE],
   espDisabled |-> FALSE, espActive |-> FALSE, stockFcw |-> FALSE, stockAeb |-> FALSE,
   vEgo |-> 20000, brakeHoldActive |-> FALSE, parkingBrake |-> FALSE, accFaulted |-> FALSE,
   steeringPressed |-> FALSE, brakePressed |-> FALSE, standstill |-> FALSE,
   gasPressed |-> FALSE, vehicleSensorsInvalid |-> FALSE, buttonEvents |-> << >>,
   steerFaultTemporary |-> FALSE, steerFaultPermanent |-> FALSE, brake |-> 0]

\* the interface's car state object: CS.out and the brand's own fields
CS0 ==
  [out |-> Out0, lkas_enabled |-> FALSE, lkas_disabled |-> FALSE, low_speed_alert |-> FALSE,
   low_speed_lockout |-> FALSE, moving_backward |-> FALSE, cruise_buttons |-> << >>,
   main_buttons |-> << >>]

CC0 == [enabled |-> FALSE, actuators |-> [accel |-> 0]]

\* the carName of a port that update does not know
UnsupportedCars == {"mock"}

CarNames == SupportedCars \cup UnsupportedCars

Config(name, pcm, long, enableSpeed, steerSpeed, loc) ==
  [carName |-> name, pcmCruise |-> pcm, openpilotLongitudinalControl |-> long,
   minEnableSpeed |-> enableSpeed, minSteerSpeed |-> steerSpeed, networkLocation |-> loc]

\* previous snapshots: the two fields update reads from CS_prev
PrevSnapshots ==
  {[Out0 EXCEPT !.cruiseState.enabled = e, !.steerFaultTemporary = f] :
     e \in BOOLEAN, f \in BOOLEAN}

InitCall ==
  /\ CS = CS0
  /\ CS_prev = Out0
  /\ CC_prev = CC0
  /\ events = Events
  /\ outcome = "none"
  /\ unpressed_run = 0
  /\ fault_cleared = FALSE
  /\ silent_raised = FALSE
  /\ first_alert = "none"

-----------------------------------------------------------------------------
(* SpecCruise: the PCM cruise edges and the speed rules of every family *)

CruiseConfigs ==
  {Config(n, p, l, e, 0, "fwdCamera") :
     n \in CarNames, p \in BOOLEAN, l \in BOOLEAN, e \in {0, 5000}}

\* hyundai's button history: nothing, an enable button, a held main button
HyundaiButtons ==
  {<< << >>, << >> >>, << <<"NONE", "RES_ACCEL">>, <<0>> >>, << <<"NONE">>, <<0, 1>> >>}

CruiseSpeeds == {0, 6000, 20000}

CruiseSnapshots(cp) ==
  {[CS0 EXCEPT !.out.cruiseState.enabled = e, !.out.vEgo = v,
               !.cruise_buttons = b[1], !.main_buttons = b[2]] :
     e \in BOOLEAN, v \in CruiseSpeeds,
     b \in IF cp.carName = "hyundai" THEN HyundaiButtons ELSE {<< << >>, << >> >>}}

CruisePrev == {p \in PrevSnapshots : ~p.steerFaultTemporary}

CruiseCC ==
  {[enabled |-> TRUE, actuators |-> [accel |-> -1000]],
   [enabled |-> TRUE, actuators |-> [accel |-> 500]],
   [enabled |-> FALSE, actuators |-> [accel |-> 0]]}

InitCruise == InitCall /\ \E cp \in CruiseConfigs : Construct(cp)

NextCruise ==
  \E cs \in CruiseSnapshots(CP), prev \in CruisePrev, cc \in CruiseCC : Update(cs, prev, cc)

SpecCruise == InitCruise /\ [][NextCruise]_vars

-----------------------------------------------------------------------------
(* SpecSteer: the steering-fault debounce of every family *)

SteerConfigs == {Config(n, TRUE, FALSE, 0, 0, "fwdCamera") : n \in CarNames}

SteerSnapshots ==
  {[CS0 EXCEPT !.out.steeringPressed = p, !.out.steerFaultTemporary = t,
               !.out.steerFaultPermanent = f, !.out.standstill = st] :
     p \in BOOLEAN, t \in BOOLEAN, f \in BOOLEAN, st \in BOOLEAN}

SteerPrev == {p \in PrevSnapshots : ~p.cruiseState.enabled}

InitSteer == InitCall /\ \E cp \in SteerConfigs : Construct(cp)

NextSteer ==
  \E cs \in SteerSnapshots, prev \in SteerPrev : Update(cs, prev, CC0)

SpecSteer == InitSteer /\ [][NextSteer]_vars

-----------------------------------------------------------------------------
(* SpecLatch: the low speed steer alert latch around minSteerSpeed *)

MinSteerSpeeds == {0, 1, 5000, 14000}

LatchConfigs ==
  {Config(n, TRUE, FALSE, 0, m, "fwdCamera") : n \in CarNames, m \in MinSteerSpeeds}

\* speeds at and next to every threshold of the three families
LatchOffsets == {-1, 499, 500, 1000, 1001, 1999, 2000, 2001, 4000, 4001}

LatchSnapshots(cp) ==
  {[CS0 EXCEPT !.out.vEgo = v, !.out.steeringPressed = p] :
     v \in {0} \cup {cp.minSteerSpeed + d : d \in LatchOffsets}, p \in BOOLEAN}

InitLatch == InitCall /\ \E cp \in LatchConfigs : Construct(cp)

NextLatch ==
  \E cs \in LatchSnapshots(CP) : Update(cs, Out0, CC0)

SpecLatch == InitLatch /\ [][NextLatch]_vars

-----------------------------------------------------------------------------
(* SpecCabin: gears, door and seatbelt, and every flag check, at three speeds *)

\* per family: PCM cruise with no thresholds, PCM cruise with thresholds, and the
\* stack's own longitudinal control with and without thresholds
CabinConfigs ==
  {Config(n, c[1], c[2], c[3], c[4], loc) :
     n \in CarNames,
     c \in {<<TRUE, FALSE, 0, 0>>, <<TRUE, FALSE, 5000, 12000>>,
            <<FALSE, TRUE, 0, 0>>, <<TRUE, TRUE, 5000, 12000>>},
     loc \in {"fwdCamera"}}

CabinSpeeds == {0, 20000, 45000}

GearSnapshots ==
  {[CS0 EXCEPT !.out.gearShifter = g, !.out.vEgo = v] : g \in GearShifter, v \in CabinSpeeds}

DoorSnapshots ==
  {[CS0 EXCEPT !.out.doorOpen = d, !.out.seatbeltUnlatched = b, !.out.vEgo = v] :
     d \in BOOLEAN, b \in BOOLEAN, v \in CabinSpeeds}

\* one flag check at a time
FlagSnapshots ==
  {[CS0 EXCEPT !.out.cruiseState.available = FALSE],
   [CS0 EXCEPT !.out.espDisabled = TRUE],
   [CS0 EXCEPT !.out.espActive = TRUE],
   [CS0 EXCEPT !.out.stockFcw = TRUE],
   [CS0 EXCEPT !.out.stockAeb = TRUE],
   [CS0 EXCEPT !.out.cruiseState.nonAdaptive = TRUE],
   [CS0 EXCEPT !.out.brakeHoldActive = TRUE],
   [CS0 EXCEPT !.out.parkingBrake = TRUE],
   [CS0 EXCEPT !.out.accFaulted = TRUE],
   [CS0 EXCEPT !.out.steeringPressed = TRUE],
   [CS0 EXCEPT !.out.brakePressed = TRUE, !.out.standstill = TRUE, !.out.vEgo = 0,
               !.out.brake = 30],
   [CS0 EXCEPT !.out.brakePressed = TRUE, !.out.cruiseState.standstill = TRUE],
   [CS0 EXCEPT !.out.cruiseState.standstill = TRUE, !.out.standstill = TRUE, !.out.vEgo = 0],
   [CS0 EXCEPT !.out.gasPressed = TRUE],
   [CS0 EXCEPT !.out.vehicleSensorsInvalid = TRUE],
   [CS0 EXCEPT !.lkas_enabled = TRUE],
   [CS0 EXCEPT !.lkas_disabled = TRUE],
   [CS0 EXCEPT !.low_speed_alert = TRUE],
   [CS0 EXCEPT !.lkas_disabled = TRUE, !.low_speed_alert = TRUE],
   [CS0 EXCEPT !.low_speed_lockout = TRUE],
   [CS0 EXCEPT !.moving_backward = TRUE]}

\* every check true at once, parked in reverse with the door open
AllRaised ==
  [out |-> [Out0 EXCEPT !.doorOpen = TRUE, !.seatbeltUnlatched = TRUE,
                        !.gearShifter = "reverse", !.cruiseState.available = FALSE,
                        !.cruiseState.standstill = TRUE, !.cruiseState.nonAdaptive = TRUE,
                        !.espDisabled = TRUE, !.espActive = TRUE, !.stockFcw = TRUE,
                        !.stockAeb = TRUE, !.vEgo = 0, !.brakeHoldActive = TRUE,
                        !.parkingBrake = TRUE, !.accFaulted = TRUE, !.steeringPressed = TRUE,
                        !.brakePressed = TRUE, !.standstill = TRUE, !.gasPressed = TRUE,
                        !.vehicleSensorsInvalid = TRUE, !.steerFaultPermanent = TRUE],
   lkas_enabled |-> TRUE, lkas_disabled |-> FALSE, low_speed_alert |-> TRUE,
   low_speed_lockout |-> TRUE, moving_backward |-> TRUE, cruise_buttons |-> << >>,
   main_buttons |-> << >>]

CabinSnapshots == GearSnapshots \cup DoorSnapshots \cup FlagSnapshots \cup {AllRaised}

\* the stack was enabled and commanding 0.5 m/s^2 in the previous cycle
CabinCC == [enabled |-> TRUE, actuators |-> [accel |-> 500]]

InitCabin == InitCall /\ \E cp \in CabinConfigs : Construct(cp)

NextCabin ==
  \E cs \in CabinSnapshots : Update(cs, Out0, CabinCC)

SpecCabin == InitCabin /\ [][NextCabin]_vars

-----------------------------------------------------------------------------
(* SpecButtons: the button events of one cycle, with and without PCM cruise *)

\* the button types a family's rules tell apart: cancel, accelCruise (in the default
\* enable_buttons, outside volkswagen's, pressed in gm's own rule) and one more, for gm
\* its enable button decelCruise, for the others setCruise (volkswagen's enable button)
ButtonTypes(cp) ==
  {"cancel", "accelCruise", IF cp.carName = "gm" THEN "decelCruise" ELSE "setCruise"}

\* car.CarState.ButtonEvent: a press or a release of one button
ButtonEventSet(cp) == [type : ButtonTypes(cp), pressed : BOOLEAN]

ButtonSeqs(cp) == UNION {[1..n -> ButtonEventSet(cp)] : n \in 0..MaxButtons}

ButtonConfigs ==
  {Config(n, p, ~p, 0, 0, "fwdCamera") : n \in CarNames, p \in BOOLEAN}

\* the driver holds the wheel while using the buttons
ButtonSnapshots(cp) ==
  {[CS0 EXCEPT !.out.buttonEvents = bs, !.out.steeringPressed = TRUE] : bs \in ButtonSeqs(cp)}

InitButtons == InitCall /\ \E cp \in ButtonConfigs : Construct(cp)

NextButtons ==
  \E cs \in ButtonSnapshots(CP) : Update(cs, Out0, CC0)

SpecButtons == InitButtons /\ [][NextButtons]_vars

-----------------------------------------------------------------------------
(* Claims *)

\* the last update call returned an event list
Returned == outcome = "returned"

RisingEdge == CS.out.cruiseState.enabled /\ ~CS_prev.cruiseState.enabled

FallingEdge == ~CS.out.cruiseState.enabled /\ CS_prev.cruiseState.enabled

\* the last call ran create_common_events with pcm_enable set
RanWithPcmEnable == Returned /\ CP.carName \in CommonCars /\ PcmEnableArg(CP)

\* C1: in every family, pcmEnable is in the returned events only on a cycle where
\* cruiseState.enabled is false in the previous snapshot and true in the current one
\* (never while it stays true, never on true -> false)
C1_PcmEnableOnlyOnRisingEdge ==
  (Returned /\ Has(events, "pcmEnable")) => RisingEdge

C1_Witness ==
  Returned /\ Has(events, "pcmEnable") /\ RisingEdge

\* C2 as stated: with pcm_enable set, pcmDisable is raised if and only if the cycle
\* is a falling edge of cruise-enabled (not raised when it was false and stays false)
C2_PcmDisableIffFallingEdge ==
  RanWithPcmEnable => (Has(events, "pcmDisable") <=> FallingEdge)

\* C2 amended: with pcm_enable set, pcmDisable is raised (once) if and only if
\* cruiseState.enabled is false in the current snapshot, whatever the previous one:
\* on falling edges and also on cycles where it was already false
C2_PcmDisableIffCruiseOff ==
  RanWithPcmEnable =>
    /\ Has(events, "pcmDisable") <=> ~CS.out.cruiseState.enabled
    /\ Count(events, "pcmDisable") <= 1

C2_Witness ==
  /\ RanWithPcmEnable
  /\ ~CS.out.cruiseState.enabled /\ ~CS_prev.cruiseState.enabled
  /\ Has(events, "pcmDisable")

\* C7: with a carName outside the twelve supported ones every update call raises
\* ValueError and no call ever returns an event list
C7_UnsupportedCarRaises ==
  (CP.carName \notin SupportedCars /\ outcome # "none") =>
    (outcome = "ValueError" /\ events = Events)

C7_Witness ==
  CP.carName \notin SupportedCars /\ outcome = "ValueError"

\* the family's cruise is PCM-owned: its branch detects the PCM's edges, either in
\* create_common_events (pcm_enable set) or, for honda, under CP.pcmCruise
PcmOwned ==
  CP.carName \in CommonCars /\ (PcmEnableArg(CP) \/ (CP.carName = "honda" /\ CP.pcmCruise))

\* C9: PCM-owned cruise, cruise-enabled rises false -> true and enabling is not vetoed:
\* the returned events hold pcmEnable exactly once and no disengage event due to the
\* cruise state (pcmDisable, cruiseDisabled, honda's speedTooLow; the only other
\* speedTooLow on such a cycle is toyota's stack-longitudinal speed rule)
C9_RisingEdgeEnablesOnce ==
  (Returned /\ PcmOwned /\ RisingEdge /\ AllowEnableArg(CP, CS)) =>
    /\ Count(events, "pcmEnable") = 1
    /\ ~Has(events, "pcmDisable")
    /\ ~Has(events, "cruiseDisabled")
    /\ Has(events, "speedTooLow") => CP.carName = "toyota"

C9_Witness ==
  /\ Returned /\ PcmOwned /\ RisingEdge /\ AllowEnableArg(CP, CS)
  /\ CP.carName = "honda"
  /\ Count(events, "pcmEnable") = 1

\* the last call ran create_common_events with a temporary steering fault, the
\* driver not pressing the wheel and the vehicle not at standstill
UnpressedFaultCycle ==
  /\ Returned /\ CP.carName \in CommonCars
  /\ CS.out.steerFaultTemporary /\ ~CS.out.steeringPressed /\ ~CS.out.standstill

Loud == Has(events, "steerTempUnavailable")

Silent == Has(events, "steerTempUnavailableSilent")

\* C3 as stated: over consecutive cycles with the fault active, the wheel unpressed
\* and no standstill, the event is the silent one while the counter is below
\* int(1.5 / DT_CTRL) and the loud one from the first tick where the counter reaches it
C3_LoudFromBoundaryTick ==
  [][(UnpressedFaultCycle /\ UnpressedFaultCycle' /\ CS_prev'.steerFaultTemporary) =>
       IF steering_unpressed' < SilentTicks
       THEN Has(events', "steerTempUnavailableSilent") /\ ~Has(events', "steerTempUnavailable")
       ELSE Has(events', "steerTempUnavailable") /\ ~Has(events', "steerTempUnavailableSilent")
    ]_vars

\* C3 amended: on a cycle with the fault active, the wheel unpressed and no standstill
\* exactly one of the two events is raised: the loud one if and only if the silent
\* latch was clear before the call and the counter has reached int(1.5 / DT_CTRL),
\* so never before that tick; and once such a cycle raised the silent event, the
\* following such cycle raises the silent event too, however large the counter
C3_LoudNeedsClearLatchAndFullWindow ==
  [][UnpressedFaultCycle' =>
       /\ Has(events', "steerTempUnavailable") <=>
            (~silent_steer_warning /\ steering_unpressed' >= SilentTicks)
       /\ Has(events', "steerTempUnavailableSilent") <=> ~Has(events', "steerTempUnavailable")
       /\ (UnpressedFaultCycle /\ Silent) => Has(events', "steerTempUnavailableSilent")
    ]_vars

\* a held fault at the boundary tick: still the silent event
C3_Witness ==
  /\ UnpressedFaultCycle /\ CS_prev.steerFaultTemporary
  /\ steering_unpressed = SilentTicks
  /\ Silent /\ ~Loud

\* C5 as stated: every update call sets steering_unpressed to 0 if the wheel is
\* pressed and to its old value plus 1 otherwise, so the counter equals the number
\* of most recent consecutive evaluated cycles with the wheel unpressed
C5_CounterAdvancedEveryCycle ==
  [][/\ steering_unpressed' = IF CS'.out.steeringPressed THEN 0 ELSE steering_unpressed + 1
     /\ steering_unpressed' = unpressed_run'
    ]_vars

\* C5 amended: for every family whose branch runs create_common_events (all supported
\* ones but body) each update call sets steering_unpressed to 0 if the wheel is pressed
\* and to its old value plus 1 otherwise, and the counter equals the number of most
\* recent consecutive evaluated cycles with the wheel unpressed; for body and for an
\* unsupported carName update leaves steering_unpressed unchanged
C5_CounterAdvancedOncePerCommonCycle ==
  [][IF CP.carName \in CommonCars
     THEN /\ steering_unpressed' =
               IF CS'.out.steeringPressed THEN 0 ELSE steering_unpressed + 1
          /\ steering_unpressed' = unpressed_run'
     ELSE steering_unpressed' = steering_unpressed
    ]_vars

C5_Witness ==
  /\ Returned /\ CP.carName \in CommonCars
  /\ ~CS.out.steeringPressed
  /\ steering_unpressed = 2 /\ unpressed_run = 2

\* the thresholds C4 names, as offsets from minSteerSpeed
C4_SetMargin ==
  CASE CP.carName = "chrysler" -> 500 [] CP.carName = "volkswagen" -> 1000 [] OTHER -> 2000

C4_ClearMargin ==
  CASE CP.carName = "chrysler" -> 1000 [] CP.carName = "volkswagen" -> 2000 [] OTHER -> 4000

\* the family's condition on the configuration under which its latch can be set
C4_LatchEnabled ==
  CASE CP.carName = "chrysler" -> CP.minSteerSpeed > 0
    [] CP.carName = "volkswagen" -> CP.minSteerSpeed - 1 > DEFAULT_MIN_STEER_SPEED
    [] OTHER -> CP.minSteerSpeed > 10000

\* C4 as stated: in chrysler, volkswagen and hyundai every cycle with vEgo below the
\* set threshold sets low_speed_alert, the latch is cleared only on a cycle with vEgo
\* above the clear threshold, and between the two thresholds it keeps its value
C4_LatchHysteresis ==
  [][CP.carName \in LatchCars =>
       /\ CS'.out.vEgo < CP.minSteerSpeed + C4_SetMargin => low_speed_alert'
       /\ (low_speed_alert /\ ~low_speed_alert') =>
            CS'.out.vEgo > CP.minSteerSpeed + C4_ClearMargin
       /\ (/\ CS'.out.vEgo >= CP.minSteerSpeed + C4_SetMargin
           /\ CS'.out.vEgo <= CP.minSteerSpeed + C4_ClearMargin) =>
            low_speed_alert' = low_speed_alert
    ]_vars

\* C4 amended: a cycle with vEgo below the set threshold sets low_speed_alert when the
\* family's condition on minSteerSpeed holds (chrysler: > 0, volkswagen: minSteerSpeed -
\* 0.001 > DEFAULT_MIN_STEER_SPEED, hyundai: > 10) and leaves it unchanged when it does
\* not; the latch is cleared only with vEgo above the clear threshold, and between the
\* two thresholds it keeps its value
C4_LatchHysteresisWhenEnabled ==
  [][CP.carName \in LatchCars =>
       /\ CS'.out.vEgo < CP.minSteerSpeed + C4_SetMargin =>
            IF C4_LatchEnabled THEN low_speed_alert'
            ELSE low_speed_alert' = low_speed_alert
       /\ (low_speed_alert /\ ~low_speed_alert') =>
            CS'.out.vEgo > CP.minSteerSpeed + C4_ClearMargin
       /\ (/\ CS'.out.vEgo >= CP.minSteerSpeed + C4_SetMargin
           /\ CS'.out.vEgo <= CP.minSteerSpeed + C4_ClearMargin) =>
            low_speed_alert' = low_speed_alert
    ]_vars

\* the latch held between the two thresholds
C4_Witness ==
  /\ Returned /\ CP.carName = "hyundai" /\ low_speed_alert
  /\ CS.out.vEgo > CP.minSteerSpeed + C4_SetMargin
  /\ CS.out.vEgo <= CP.minSteerSpeed + C4_ClearMargin
  /\ Has(events, "belowSteerSpeed")

\* the gears C8 lists as tolerated besides drive
C8_AllowedGears ==
  CASE CP.carName = "ford" -> {"manumatic"}
    [] CP.carName = "nissan" -> {"brake"}
    [] CP.carName = "chrysler" -> {"low"}
    [] CP.carName = "gm" -> {"sport", "low", "eco", "manumatic"}
    [] CP.carName = "volkswagen" -> {"eco", "sport", "manumatic"}
    [] OTHER -> {}

C8_GearRule ==
  /\ CS.out.gearShifter = "drive" => ~Has(events, "wrongGear")
  /\ (CS.out.gearShifter # "drive" /\ CS.out.gearShifter \notin C8_AllowedGears) =>
       Has(events, "wrongGear")

\* C8 as stated: in every family, wrongGear is absent in drive and present in every
\* other gear outside the family's extra-allowed set
C8_WrongGearEveryFamily ==
  Returned => C8_GearRule

\* C8 amended: in every family whose branch runs create_common_events (all supported
\* ones but body) wrongGear is absent in drive and present in every other gear outside
\* the family's extra-allowed set; body returns no wrongGear in any gear
C8_WrongGearCommonFamilies ==
  Returned =>
    IF CP.carName \in CommonCars THEN C8_GearRule ELSE ~Has(events, "wrongGear")

C8_Witness ==
  /\ Returned /\ CP.carName = "volkswagen" /\ CS.out.gearShifter = "low"
  /\ Has(events, "wrongGear")

\* door open, seatbelt unlatched, speed 0 in the last call
C10_Scenario ==
  CS.out.doorOpen /\ CS.out.seatbeltUnlatched /\ CS.out.vEgo = 0

\* some occurrence of a precedes some occurrence of b
Before(ev, a, b) ==
  \E i \in DOMAIN ev, j \in DOMAIN ev : i < j /\ ev[i] = a /\ ev[j] = b

C10_SpeedEvents ==
  {"speedTooHigh", "belowEngageSpeed", "belowSteerSpeed", "speedTooLow", "manualRestart"}

\* C10 as stated: with the door open, the seatbelt unlatched and vEgo = 0 the returned
\* events hold doorOpen before seatbeltNotLatched and no speed-related event
C10_DoorSeatbeltNoSpeedEvent ==
  (Returned /\ C10_Scenario) =>
    /\ Before(events, "doorOpen", "seatbeltNotLatched")
    /\ \A e \in C10_SpeedEvents : ~Has(events, e)

\* the families with no speed rule of their own
C10_NoSpeedRuleCars == {"tesla", "subaru", "ford", "nissan"}

\* C10 amended: with the door open, the seatbelt unlatched and vEgo = 0, every family
\* whose branch runs create_common_events returns doorOpen and seatbeltNotLatched as
\* its first two events, in that order and once each, and no speedTooHigh; tesla,
\* subaru, ford and nissan return no speed-related event at all, while the other
\* families' own rules can add belowEngageSpeed, belowSteerSpeed, speedTooLow or
\* manualRestart at standstill; body returns no event
C10_DoorSeatbeltFirst ==
  (Returned /\ C10_Scenario) =>
    IF CP.carName \in CommonCars
    THEN /\ Len(events) >= 2 /\ events[1] = "doorOpen" /\ events[2] = "seatbeltNotLatched"
         /\ Count(events, "doorOpen") = 1 /\ Count(events, "seatbeltNotLatched") = 1
         /\ ~Has(events, "speedTooHigh")
         /\ CP.carName \in C10_NoSpeedRuleCars => \A e \in C10_SpeedEvents : ~Has(events, e)
    ELSE events = Events

\* honda at standstill with a minimum enable speed: the two events, then speed events
C10_Witness ==
  /\ Returned /\ C10_Scenario /\ CP.carName = "honda"
  /\ Before(events, "doorOpen", "seatbeltNotLatched")
  /\ Has(events, "belowEngageSpeed") /\ Has(events, "manualRestart")

\* C11: for the body family every update call returns, and returns the empty event
\* set, whatever the snapshot and whatever the hysteresis fields hold
C11_BodyReturnsNoEvents ==
  (CP.carName = "body" /\ outcome # "none") => (Returned /\ events = Events)

\* body with every check of the common evaluator true at once
C11_Witness ==
  CP.carName = "body" /\ Returned /\ CS = AllRaised /\ events = Events

\* the cancel-type button events of the last snapshot
C12_Cancels ==
  Cardinality({i \in DOMAIN CS.out.buttonEvents : CS.out.buttonEvents[i].type = "cancel"})

\* the releases of a button in the family's enable_buttons, counted when pcmCruise is false
C12_EnableReleases ==
  IF CP.pcmCruise THEN 0
  ELSE Cardinality({i \in DOMAIN CS.out.buttonEvents :
                      /\ CS.out.buttonEvents[i].type \in EnableButtonsArg(CP)
                      /\ ~CS.out.buttonEvents[i].pressed})

\* gm's own rule after create_common_events returned: one buttonEnable if pcmCruise is
\* false and some accelCruise event is a press
C12_GmOwnEnable ==
  IF /\ CP.carName = "gm" /\ ~CP.pcmCruise
     /\ \E i \in DOMAIN CS.out.buttonEvents :
          CS.out.buttonEvents[i].type = "accelCruise" /\ CS.out.buttonEvents[i].pressed
  THEN 1 ELSE 0

\* C12: the button scan of create_common_events adds one buttonCancel per cancel-type
\* button event, pressed or released, with or without pcmCruise, and one buttonEnable per
\* release of a button in enable_buttons when pcmCruise is false, none when pcmCruise is
\* true or the event is a press; nothing is deduplicated, so the counts in the result of
\* create_common_events equal the counts of matching button events (update's result for
\* gm holds in addition the one buttonEnable of gm's own rule)
C12_ButtonCounts ==
  (Returned /\ CP.carName \in CommonCars) =>
    /\ Count(events, "buttonCancel") = C12_Cancels
    /\ Count(events, "buttonEnable") = C12_EnableReleases + C12_GmOwnEnable

\* two releases and no press: two buttonEnable in one result
C12_Witness ==
  /\ Returned /\ CP.carName = "tesla" /\ ~CP.pcmCruise
  /\ Len(CS.out.buttonEvents) = 2
  /\ \A i \in DOMAIN CS.out.buttonEvents : ~CS.out.buttonEvents[i].pressed
  /\ C12_EnableReleases = 2
  /\ Count(events, "buttonEnable") = 2

\* C13: for every family that runs create_common_events and every hysteresis state,
\* steerUnavailable is in the returned events (once) if and only if steerFaultPermanent
\* is true in the current snapshot, whatever the temporary fault, steeringPressed and
\* the two latches
C13_SteerUnavailableIffPermanentFault ==
  (Returned /\ CP.carName \in CommonCars) =>
    /\ Has(events, "steerUnavailable") <=> CS.out.steerFaultPermanent
    /\ Count(events, "steerUnavailable") <= 1

\* both faults at once while the temporary one is suppressed by the driver's override
C13_Witness ==
  /\ Returned /\ CP.carName \in CommonCars
  /\ CS.out.steerFaultPermanent /\ CS.out.steerFaultTemporary /\ CS.out.steeringPressed
  /\ no_steer_warning /\ silent_steer_warning
  /\ Has(events, "steerUnavailable") /\ ~Loud /\ ~Silent

\* C15: after any update of a family that runs create_common_events with
\* steerFaultTemporary false in the snapshot, no_steer_warning and silent_steer_warning
\* are both false and neither steerTempUnavailable nor steerTempUnavailableSilent is
\* in the returned events
C15_NoFaultClearsLatches ==
  (Returned /\ CP.carName \in CommonCars /\ ~CS.out.steerFaultTemporary) =>
    /\ ~no_steer_warning /\ ~silent_steer_warning
    /\ ~Loud /\ ~Silent

\* the fault was active in the previous snapshot and is gone, the wheel still pressed
C15_Witness ==
  /\ Returned /\ CP.carName \in CommonCars
  /\ ~CS.out.steerFaultTemporary /\ CS_prev.steerFaultTemporary /\ CS.out.steeringPressed
  /\ ~no_steer_warning /\ ~silent_steer_warning /\ ~Loud /\ ~Silent

\* the last call ran create_common_events with the fault active and the driver
\* pressing, and the warning is suppressed
C14_Overriding ==
  /\ Returned /\ CP.carName \in CommonCars
  /\ CS.out.steerFaultTemporary /\ CS.out.steeringPressed
  /\ no_steer_warning

\* C14: a cycle on which the temporary fault starts (none in the previous snapshot)
\* with the driver pressing sets no_steer_warning and raises neither
\* steerTempUnavailable nor steerTempUnavailableSilent; so does every directly
\* following cycle with the fault active and the driver still pressing; the first
\* cycle of the episode with the fault active and the driver not pressing clears
\* no_steer_warning and raises exactly one of the two events
C14_OverrideSuppressesWarning ==
  [][CP.carName \in CommonCars =>
       /\ (/\ CS'.out.steerFaultTemporary /\ CS'.out.steeringPressed
           /\ ~CS_prev'.steerFaultTemporary \/ C14_Overriding) =>
            /\ no_steer_warning'
            /\ ~Has(events', "steerTempUnavailable")
            /\ ~Has(events', "steerTempUnavailableSilent")
       /\ (C14_Overriding /\ CS'.out.steerFaultTemporary /\ ~CS'.out.steeringPressed) =>
            /\ ~no_steer_warning'
            /\ Has(events', "steerTempUnavailable") # Has(events', "steerTempUnavailableSilent")
    ]_vars

\* a continuation cycle: the fault was already active, the override goes on
C14_Witness ==
  C14_Overriding /\ CS_prev.steerFaultTemporary /\ ~Loud /\ ~Silent

\* how many of pcmEnable, speedTooLow and cruiseDisabled the last call returned
C16_CruiseEvents ==
  Count(events, "pcmEnable") + Count(events, "speedTooLow") + Count(events, "cruiseDisabled")

\* the stack was not braking: previous commanded accel >= 0, or longitudinal control
\* is not the stack's
C16_NotBraking ==
  CC_prev.actuators.accel >= 0 \/ ~CP.openpilotLongitudinalControl

\* C16: honda with pcmCruise raises at most one of pcmEnable, speedTooLow and
\* cruiseDisabled per cycle and never pcmDisable; with cruise not enabled and the stack
\* not braking exactly one: speedTooLow if vEgo < minEnableSpeed + 2, cruiseDisabled
\* otherwise; with cruise not enabled, stack-owned longitudinal control and previous
\* commanded accel < 0, none
C16_HondaCruiseEvents ==
  (Returned /\ CP.carName = "honda" /\ CP.pcmCruise) =>
    /\ C16_CruiseEvents <= 1
    /\ ~Has(events, "pcmDisable")
    /\ (~CS.out.cruiseState.enabled /\ C16_NotBraking) =>
         /\ C16_CruiseEvents = 1
         /\ Has(events, "speedTooLow") <=> CS.out.vEgo < CP.minEnableSpeed + 2000
         /\ Has(events, "cruiseDisabled") <=> CS.out.vEgo >= CP.minEnableSpeed + 2000
    /\ (~CS.out.cruiseState.enabled /\ ~C16_NotBraking) => C16_CruiseEvents = 0

\* stack-owned longitudinal control, previous commanded accel exactly 0, above the margin
C16_Witness ==
  /\ Returned /\ CP.carName = "honda" /\ CP.pcmCruise /\ CP.openpilotLongitudinalControl
  /\ ~CS.out.cruiseState.enabled /\ CC_prev.actuators.accel = 0
  /\ CP.minEnableSpeed > 0 /\ CS.out.vEgo >= CP.minEnableSpeed + 2000
  /\ Has(events, "cruiseDisabled") /\ C16_CruiseEvents = 1

\* the button condition C17 names: an enable button among cruise_buttons or a main
\* button set
C17_ButtonSeen ==
  \/ \E i \in DOMAIN CS.cruise_buttons : CS.cruise_buttons[i] \in {"RES_ACCEL", "SET_DECEL"}
  \/ \E i \in DOMAIN CS.main_buttons : CS.main_buttons[i] = 1

\* C17: hyundai with pcmCruise raises pcmEnable if and only if cruise-enabled rises
\* false -> true on the cycle and an enable button is among cruise_buttons or a main
\* button is set; a rising edge without such a button raises neither pcmEnable nor
\* pcmDisable; a cycle on which cruise-enabled stays true raises no pcmEnable, button
\* or not
C17_HyundaiEnableNeedsButton ==
  (Returned /\ CP.carName = "hyundai" /\ CP.pcmCruise) =>
    /\ Has(events, "pcmEnable") <=> (RisingEdge /\ C17_ButtonSeen)
    /\ (RisingEdge /\ ~C17_ButtonSeen) =>
         ~Has(events, "pcmEnable") /\ ~Has(events, "pcmDisable")
    /\ (CS.out.cruiseState.enabled /\ CS_prev.cruiseState.enabled) => ~Has(events, "pcmEnable")

\* a rising edge with no button: no engagement and no disengagement
C17_Witness ==
  /\ Returned /\ CP.carName = "hyundai" /\ CP.pcmCruise
  /\ RisingEdge /\ ~C17_ButtonSeen
  /\ ~Has(events, "pcmEnable") /\ ~Has(events, "pcmDisable")

\* C18: an update call for body or for an unsupported carName leaves steering_unpressed,
\* low_speed_alert, no_steer_warning and silent_steer_warning unchanged; an update call
\* for any family other than chrysler, volkswagen and hyundai leaves low_speed_alert
\* unchanged; no update call changes the configuration
C18_FrameConditions ==
  [][/\ (CP.carName = "body" \/ CP.carName \notin SupportedCars) =>
          /\ steering_unpressed' = steering_unpressed
          /\ low_speed_alert' = low_speed_alert
          /\ no_steer_warning' = no_steer_warning
          /\ silent_steer_warning' = silent_steer_warning
     /\ CP.carName \notin {"chrysler", "volkswagen", "hyundai"} =>
          low_speed_alert' = low_speed_alert
     /\ CP' = CP
    ]_vars

\* body after two unpressed cycles far below a minSteerSpeed that latches in hyundai:
\* the fields still hold their construction values
C18_Witness ==
  /\ Returned /\ CP.carName = "body" /\ CP.minSteerSpeed > 10000
  /\ unpressed_run = 2 /\ CS.out.vEgo < CP.minSteerSpeed
  /\ steering_unpressed = 0 /\ ~low_speed_alert
  /\ ~no_steer_warning /\ silent_steer_warning

\* C19: once steerTempUnavailableSilent has been raised, steerTempUnavailable is not
\* raised on any later cycle until a cycle with steerFaultTemporary false has been
\* evaluated, however large steering_unpressed grows and whether or not standstill
\* ends; a cycle raises steerTempUnavailable only if the first alert of its episode
\* was the loud one, and only with silent_steer_warning false before the call, no
\* standstill and steering_unpressed >= int(1.5 / DT_CTRL)
C19_SilentIsSticky ==
  [][/\ silent_raised' => ~Has(events', "steerTempUnavailable")
     /\ Has(events', "steerTempUnavailable") =>
          /\ first_alert' = "loud"
          /\ ~silent_steer_warning
          /\ ~CS'.out.standstill
          /\ steering_unpressed' >= SilentTicks
    ]_vars

\* the silent alert raised at standstill is raised again although the vehicle moves
\* and the counter is past the silent window
C19_Witness ==
  /\ Returned /\ CP.carName \in CommonCars
  /\ first_alert = "silent" /\ silent_raised
  /\ CS.out.steerFaultTemporary /\ ~CS.out.steeringPressed /\ ~CS.out.standstill
  /\ steering_unpressed > SilentTicks
  /\ Silent /\ ~Loud

\* C20: a freshly constructed object has steering_unpressed = 0, low_speed_alert =
\* False, no_steer_warning = False and silent_steer_warning = True; while every
\* evaluated cycle so far had steerFaultTemporary true, steerTempUnavailable is not
\* raised
C20_FreshObjectStaysSilent ==
  /\ outcome = "none" =>
       /\ steering_unpressed = 0 /\ ~low_speed_alert
       /\ ~no_steer_warning /\ silent_steer_warning
  /\ ~fault_cleared => ~Loud

\* the fault has been active since the first cycle, the wheel unpressed for longer
\* than the silent window, no standstill: still the silent alert
C20_Witness ==
  /\ Returned /\ CP.carName \in CommonCars /\ ~fault_cleared
  /\ CS.out.steerFaultTemporary /\ ~CS.out.steeringPressed /\ ~CS.out.standstill
  /\ steering_unpressed >= SilentTicks
  /\ Silent /\ silent_steer_warning

\* the configurations C21 names as never latching
C21_LatchDisabled ==
  CASE CP.carName = "chrysler" -> CP.minSteerSpeed <= 0
    [] CP.carName = "hyundai" -> CP.minSteerSpeed <= 10000
    [] CP.carName = "volkswagen" -> CP.minSteerSpeed - 1 <= DEFAULT_MIN_STEER_SPEED
    [] OTHER -> FALSE

\* C21: in chrysler, volkswagen and hyundai belowSteerSpeed is in a cycle's returned
\* events (once) if and only if low_speed_alert is true after that call; and when the
\* family's enabling condition on minSteerSpeed is false, low_speed_alert is false in
\* every state reachable from construction and belowSteerSpeed is never returned, at
\* any speed
C21_BelowSteerSpeedIffLatched ==
  CP.carName \in {"chrysler", "volkswagen", "hyundai"} =>
    /\ Returned =>
         /\ Has(events, "belowSteerSpeed") <=> low_speed_alert
         /\ Count(events, "belowSteerSpeed") <= 1
    /\ C21_LatchDisabled => (~low_speed_alert /\ ~Has(events, "belowSteerSpeed"))

\* volkswagen with minSteerSpeed 0.001 above the default, below the set threshold
C21_Witness ==
  /\ Returned /\ CP.carName = "volkswagen"
  /\ CP.minSteerSpeed > DEFAULT_MIN_STEER_SPEED /\ C21_LatchDisabled
  /\ CS.out.vEgo < CP.minSteerSpeed + 1000
  /\ ~low_speed_alert /\ ~Has(events, "belowSteerSpeed")

====
